---------------------------- MODULE Spec2Model ----------------------------
(***************************************************************************)
(* A model of the bzerker BOXES engine (src/bzerker.c): the brain (a dense *)
(* table of token weights), bz_nextaction (weighted selection with the     *)
(* underflow refill), the chain (a LIFO list of recorded moves) and the    *)
(* learning rule bz_learnstateaction / bz_learnchain.                      *)
(*                                                                         *)
(* Arithmetic.  The C code keeps weights in floats.  The model keeps them  *)
(* as exact fixed-point integers: a weight is a whole number of units,     *)
(* TOKENMIN is one unit and one token is ONE units.  The coefficients the  *)
(* model feeds to the learning rule are whole numbers of units (add) and   *)
(* whole numbers (multiply), so every value the code computes is exact in  *)
(* this representation.  A pointer argument that may be NULL is a sequence *)
(* of length 0 (NULL) or carries the pointed-to value.                     *)
(*                                                                         *)
(* Specifications.  Spec is a caller making any sequence of library calls  *)
(* on one brain and one chain.  SpecBlocks is a caller with two equal      *)
(* brains, one learned cell by cell and one from a chain.  SpecDraw sweeps *)
(* the random draw of bz_nextaction over its range.  SpecRecord is a       *)
(* caller that rewrites its mask buffer between chain calls.  SpecTtt is   *)
(* the tic-tac-toe program (src/tictactoe.c).  SpecBall is the ball and    *)
(* track program (src/balltrack.c).  SpecTwin runs one sequence of calls   *)
(* twice from the same seed.                                               *)
(***************************************************************************)
EXTENDS Integers, Sequences, FiniteSets

VARIABLES
    pc,          \* where the calling program stands: "start" before bz_newbrain,
                 \* "run" after, "crashed" after a wild write (Spec)
    brain,       \* the bz_brain struct: maxstates, maxactions, starting_tokens, states[]
    underflows,  \* the caller's int that *underflows points to
    chain,       \* <<>> when no chain is allocated, else <<the bz_chain struct>>
    last,        \* the call that has just returned: its name, arguments, result and
                 \* the state before it; [op |-> "none"] once the caller has moved on
    brain2,      \* the second bz_brain of a program that makes two
    chain2,      \* the second chain of such a program, like chain
    driver       \* the calling program's own variables (its locals and globals)

vars == <<pc, brain, underflows, chain, last, brain2, chain2, driver>>

---------------------------------------------------------------------------
(* Bounds of the model                                                     *)

\* weights are kept at or below MaxTokens tokens (learning calls that would
\* exceed it are not made)
MaxTokens == 2
\* the underflow counter is not driven past this value
MaxUnderflows == 1
\* the number of bz_addtochain calls made on one chain (so its longest length)
MaxChain == 3
\* the number of (state, action) visits of one run of the blocks-and-chains
\* comparison
MaxVisits == 3
\* the number of equal steps into which the range of random () is divided:
\* the draw positions are k / DrawGrid for k = 0 .. DrawGrid - 1
DrawGrid == 100
\* the number of bz_addtochain calls of one run of the recording program
MaxRecord == 3
\* the number of play_ttt calls of one run of the tic-tac-toe program
MaxGames == 2
\* the draws of the tic-tac-toe program stop the walk of bz_nextaction at one
\* of the first MaxPick indices the mask test lets through
MaxPick == 2
\* the number of library calls of one run of the repeated-run program
MaxCalls == 3
\* the values of TVIS the ball-and-track program is built for: 1 .. MaxTvis
MaxTvis == 3
\* iterations of the ball-and-track loop (REPEATS is 500)
MaxReps == 4

---------------------------------------------------------------------------
(* Program constants                                                       *)

\* the floor of a weight: one fixed-point unit (a positive constant: "as long
\* as TOKENMIN is > 0", bz_learnstateaction)
TOKENMIN == 1
\* one token, in units: the 1 of the underflow test (sumup <= 1) and of the
\* drivers' coefficients.  The #define of TOKENMIN is not among the sources;
\* the value taken here is 0.01 token
ONE == 100 * TOKENMIN

BZ_BRAIN_QUANTIZED == 0

NULL == <<>>

---------------------------------------------------------------------------
(* Arithmetic helpers                                                      *)

\* C's conversion of a real quotient a/b (b > 0) to int: truncation toward zero
TruncDiv(a, b) == IF a >= 0 THEN a \div b ELSE -((-a) \div b)

\* pow (x, p) for a whole exponent p >= 0
RECURSIVE Pow(_, _)
Pow(x, p) == IF p = 0 THEN 1 ELSE x * Pow(x, p - 1)

---------------------------------------------------------------------------
(* bz_newbrain                                                             *)

\* the boxes array after the fill loops: istate * max_actions + iaction runs
\* over 0 .. max_states*max_actions - 1 when both counts are positive, and the
\* loops do not run at all when either count is <= 0
FilledStates_LastCellUnset(max_states, max_actions, tokens_per_node) ==
    IF max_states > 0 /\ max_actions > 0
    THEN [k \in 1 .. (max_states * max_actions) |->
             IF k = max_states * max_actions THEN 0 ELSE tokens_per_node * ONE]
    ELSE << >>

FilledStates(max_states, max_actions, tokens_per_node) ==
    IF max_states > 0 /\ max_actions > 0
    THEN [k \in 1 .. (max_states * max_actions) |-> tokens_per_node * ONE]
    ELSE << >>

bz_newbrain(braintype, max_states, max_actions, tokens_per_node) ==
    [ braintype       |-> 0,
      maxstates       |-> max_states,
      maxactions      |-> max_actions,
      starting_tokens |-> tokens_per_node,
      states          |-> FilledStates(max_states, max_actions, tokens_per_node) ]

\* the weight of (state, action): brain->states[brain->maxactions * state + action]
Index(b, state, action) == b.maxactions * state + action
Weight(b, state, action) == b.states[Index(b, state, action) + 1]


---------------------------------------------------------------------------
(* bz_nextaction                                                           *)

\* the action indices the loops run over: for (i = 0; i < brain->maxactions; i++)
Actions(b) == 0 .. (b.maxactions - 1)

\* the test the code applies to a mask entry: mask == NULL || mask[i] >= 0
Allowed(mask, i) == mask = NULL \/ mask[i + 1] >= 0

\* maxacts: the number of actions the mask test lets through
Maxacts(b, mask) == Cardinality({i \in Actions(b) : Allowed(mask, i)})

\* sumup: the weights of the actions the mask test lets through, added in
\* ascending index order from index i on
RECURSIVE SumFrom(_, _, _, _)
SumFrom(b, cur_state, mask, i) ==
    IF i >= b.maxactions THEN 0
    ELSE (IF Allowed(mask, i) THEN Weight(b, cur_state, i) ELSE 0)
         + SumFrom(b, cur_state, mask, i + 1)

Sumup(b, cur_state, mask) == SumFrom(b, cur_state, mask, 0)

\* pow (weight / (sumup / maxacts), expval) as the fraction ExpNum / ExpDen
ExpNum(w, maxacts, expval) == Pow(w * maxacts, expval)
ExpDen(sumup, expval) == Pow(sumup, expval)

\* sumup2 * ExpDen: the numerators of the exponentiated relative weights, added up
RECURSIVE Sum2From(_, _, _, _, _, _)
Sum2From(b, cur_state, mask, maxacts, expval, i) ==
    IF i >= b.maxactions THEN 0
    ELSE (IF Allowed(mask, i)
          THEN ExpNum(Weight(b, cur_state, i), maxacts, expval) ELSE 0)
         + Sum2From(b, cur_state, mask, maxacts, expval, i + 1)

\* the underflow test: if (sumup <= 1)
Underflow(sumup) == sumup <= ONE

\* the refill loop: every action the mask test lets through is set back to
\* starting_tokens; nothing else is written
Refill(b, cur_state, mask) ==
    [b EXCEPT !.states =
        [k \in DOMAIN b.states |->
            IF \E i \in Actions(b) :
                  Allowed(mask, i) /\ k = Index(b, cur_state, i) + 1
            THEN b.starting_tokens * ONE
            ELSE b.states[k]]]

\* a variant of the underflow block that clears sumup and never sets it again
SumupAfter_Cleared(b, sumup) ==
    IF Underflow(sumup) THEN 0 ELSE sumup

\* sumup after the underflow block, in units
SumupAfter(b, sumup) ==
    IF Underflow(sumup) THEN b.maxactions * b.starting_tokens * ONE ELSE sumup

\* the values of sumup at the divisions weight / (sumup / maxacts) a call
\* executes: none without evse or when the mask test lets no action through;
\* otherwise the sum of the first loop and the sum the walk uses
MeanDivisors(b, cur_state, evse, mask) ==
    IF evse = NULL \/ Maxacts(b, mask) = 0 THEN {}
    ELSE {Sumup(b, cur_state, mask), SumupAfter(b, Sumup(b, cur_state, mask))}

\* the argument of bz__random, as the fraction <<numerator, denominator>>:
\* sumup2 when evse is given, sumup (in tokens) when it is NULL
RandomMax(b, cur_state, evse, mask) ==
    LET sumup == Sumup(b, cur_state, mask)
        maxacts == Maxacts(b, mask)
    IN  IF evse # NULL
        THEN IF Underflow(sumup)
             THEN <<b.maxactions, 1>>
             ELSE <<Sum2From(b, cur_state, mask, maxacts, evse[1], 0),
                    ExpDen(sumup, evse[1])>>
        ELSE <<SumupAfter(b, sumup), ONE>>

\* bz__random (max) stored into the int myrandom: max * u for a u in [0, 1],
\* truncated; every whole number from 0 to the integer part of max
bz__random(max) == 0 .. (max[1] \div max[2])

\* the same for the draw at position k of DrawGrid: random () / RAND_MAX is
\* k / DrawGrid, and the product with max is truncated into the int
bz__randomAt(max, k) == (max[1] * k) \div (max[2] * DrawGrid)

\* the walk of the linear branch from index i on, with myrandom as it stands;
\* myrandom is an int, so each subtraction is truncated toward zero
RECURSIVE WalkLinear(_, _, _, _, _)
WalkLinear(b, cur_state, mask, i, myrandom) ==
    IF i >= b.maxactions THEN 0
    ELSE IF Allowed(mask, i)
         THEN LET m == TruncDiv(myrandom * ONE - Weight(b, cur_state, i), ONE)
              IN  IF m <= 0 THEN i
                  ELSE WalkLinear(b, cur_state, mask, i + 1, m)
         ELSE WalkLinear(b, cur_state, mask, i + 1, myrandom)

\* the walk of the exponent branch
RECURSIVE WalkExp(_, _, _, _, _, _, _, _)
WalkExp(b, cur_state, mask, sumup, maxacts, expval, i, myrandom) ==
    IF i >= b.maxactions THEN 0
    ELSE IF Allowed(mask, i)
         THEN LET den == ExpDen(sumup, expval)
                  num == ExpNum(Weight(b, cur_state, i), maxacts, expval)
                  m == TruncDiv(myrandom * den - num, den)
              IN  IF m <= 0 THEN i
                  ELSE WalkExp(b, cur_state, mask, sumup, maxacts, expval, i + 1, m)
         ELSE WalkExp(b, cur_state, mask, sumup, maxacts, expval, i + 1, myrandom)

\* the whole call for the draw myrandom: the brain it leaves, whether the
\* underflow block ran, and the value returned
bz_nextaction(b, cur_state, evse, mask, myrandom) ==
    LET sumup == Sumup(b, cur_state, mask)
        maxacts == Maxacts(b, mask)
        under == Underflow(sumup)
        b2 == IF under THEN Refill(b, cur_state, mask) ELSE b
        sumupW == SumupAfter(b, sumup)
    IN  [ brain |-> b2,
          underflow |-> under,
          ret |-> IF evse # NULL
                  THEN WalkExp(b2, cur_state, mask, sumupW, maxacts, evse[1], 0, myrandom)
                  ELSE WalkLinear(b2, cur_state, mask, 0, myrandom) ]

\* whether the walk returns from inside its loop (return (i)) rather than
\* running off the end of the actions into the final return 0
RECURSIVE StopsLinear(_, _, _, _, _)
StopsLinear(b, cur_state, mask, i, myrandom) ==
    IF i >= b.maxactions THEN FALSE
    ELSE IF Allowed(mask, i)
         THEN LET m == TruncDiv(myrandom * ONE - Weight(b, cur_state, i), ONE)
              IN  m <= 0 \/ StopsLinear(b, cur_state, mask, i + 1, m)
         ELSE StopsLinear(b, cur_state, mask, i + 1, myrandom)

RECURSIVE StopsExp(_, _, _, _, _, _, _, _)
StopsExp(b, cur_state, mask, sumup, maxacts, expval, i, myrandom) ==
    IF i >= b.maxactions THEN FALSE
    ELSE IF Allowed(mask, i)
         THEN LET den == ExpDen(sumup, expval)
                  num == ExpNum(Weight(b, cur_state, i), maxacts, expval)
                  m == TruncDiv(myrandom * den - num, den)
              IN  m <= 0 \/ StopsExp(b, cur_state, mask, sumup, maxacts, expval, i + 1, m)
         ELSE StopsExp(b, cur_state, mask, sumup, maxacts, expval, i + 1, myrandom)

\* the call on brain b with the draw myrandom ends in the final return 0
FallsThrough(b, cur_state, evse, mask, myrandom) ==
    LET sumup == Sumup(b, cur_state, mask)
        b2 == IF Underflow(sumup) THEN Refill(b, cur_state, mask) ELSE b
    IN  IF evse # NULL
        THEN ~StopsExp(b2, cur_state, mask, SumupAfter(b, sumup),
                       Maxacts(b, mask), evse[1], 0, myrandom)
        ELSE ~StopsLinear(b2, cur_state, mask, 0, myrandom)

---------------------------------------------------------------------------
(* Chains                                                                  *)

\* the brain field is the pointer the chain keeps to its brain: 1 for the
\* brain held in brain, 2 for the one held in brain2
bz_newchain(brainptr) == [totalcount |-> 0, chels |-> << >>, brain |-> brainptr]

\* the address of the caller's mask buffer, as a value a chel's mask field
\* could hold if it kept the pointer it was given instead of a copy
CallerBuffer == << "the caller's mask buffer" >>

\* the chars a chel's mask field points to: the chel's own copy (made by
\* malloc and memcpy), or whatever the caller's buffer holds at the moment
MaskOf(chel, buffer) == IF chel.mask = CallerBuffer THEN buffer ELSE chel.mask

\* (a variant that stores the caller's pointer: mychel->mask = mask)
bz_addtochain_KeepsPointer(c, maxactions, state, action, mask) ==
    [ c EXCEPT
        !.totalcount = c.totalcount + 1,
        !.chels = << [ state |-> state, action |-> action,
                       mask |-> IF mask # NULL THEN CallerBuffer ELSE NULL,
                       seq |-> c.totalcount + 1 ] >> \o c.chels ]

\* (a variant that forgets to link the new chel to the old list)
bz_addtochain_Unlinked(c, maxactions, state, action, mask) ==
    [ c EXCEPT
        !.totalcount = c.totalcount + 1,
        !.chels = << [ state |-> state, action |-> action,
                       mask |-> IF mask # NULL THEN SubSeq(mask, 1, maxactions)
                                ELSE NULL,
                       seq |-> c.totalcount + 1 ] >> ]

\* a new chel goes to the front; its mask is a copy of maxactions entries.
\* seq is not a field of the C struct: it numbers the appends (1 is the first
\* bz_addtochain on this chain), so that a property can say which chels are
\* the most recently appended without relying on their position in the list
bz_addtochain(c, maxactions, state, action, mask) ==
    [ c EXCEPT
        !.totalcount = c.totalcount + 1,
        !.chels = << [ state |-> state, action |-> action,
                       mask |-> IF mask # NULL THEN SubSeq(mask, 1, maxactions)
                                ELSE NULL,
                       seq |-> c.totalcount + 1 ] >> \o c.chels ]

\* the counting loop of bz_truncatechain: mychel stands at position pos (the
\* head is 1); 0 when the chain ends first (the early return (0))
RECURSIVE TruncStep_OneTooMany(_, _, _, _)
TruncStep_OneTooMany(chels, pos, icount, count) ==
    IF icount <= count
    THEN IF pos + 1 > Len(chels) THEN 0
         ELSE TruncStep_OneTooMany(chels, pos + 1, icount + 1, count)
    ELSE pos

RECURSIVE TruncStep(_, _, _, _)
TruncStep(chels, pos, icount, count) ==
    IF icount < count
    THEN IF pos + 1 > Len(chels) THEN 0
         ELSE TruncStep(chels, pos + 1, icount + 1, count)
    ELSE pos

\* bz_truncatechain: the chain it leaves and the number it returns; totalcount
\* is not written
bz_truncatechain(c, count) ==
    IF c.chels = << >> THEN [chain |-> c, ret |-> 0]
    ELSE LET pos == TruncStep(c.chels, 1, 1, count)
         IN  IF pos = 0 THEN [chain |-> c, ret |-> 0]
             ELSE [ chain |-> [c EXCEPT !.chels = SubSeq(c.chels, 1, pos)],
                    ret |-> Len(c.chels) - pos ]

---------------------------------------------------------------------------
(* Learning                                                                *)

\* the new value of one cell: add + multiply * w, and TOKENMIN when that is
\* <= TOKENMIN
LearnCell_NoFloor(w, add, multiply) == add + multiply * w

LearnCell_AddThenMultiply(w, add, multiply) ==
    LET v == (add + w) * multiply
    IN  IF v <= TOKENMIN THEN TOKENMIN ELSE v

LearnCell(w, add, multiply) ==
    LET v == add + multiply * w
    IN  IF v <= TOKENMIN THEN TOKENMIN ELSE v

\* (a variant with the disabled NEVERMORE block: a cell that hits the floor
\* resets its whole row to starting_tokens)
bz_learnstateaction_ResetRow(b, state, action, add, multiply) ==
    LET v == add + multiply * b.states[b.maxactions * state + action + 1]
    IN  [b EXCEPT !.states =
            [k \in DOMAIN b.states |->
                IF v <= TOKENMIN /\ (k - 1) \div b.maxactions = state
                THEN b.starting_tokens * ONE
                ELSE IF k = b.maxactions * state + action + 1 THEN v
                ELSE b.states[k]]]

\* whether brain->states[maxactions * state + action] lies inside the array
InArray(b, state, action) ==
    Index(b, state, action) >= 0 /\ Index(b, state, action) < Len(b.states)

\* bz_learnstateaction for an index inside the array: the cell at
\* maxactions * state + action is rewritten, whatever state it belongs to
bz_learnstateaction(b, state, action, add, multiply) ==
    [b EXCEPT !.states[Index(b, state, action) + 1] = LearnCell(@, add, multiply)]

\* (a variant whose loop does not advance: only the head is learned)
bz_learnchain_HeadOnly(b, chels, add, multiply) ==
    IF chels = << >> THEN b
    ELSE [b EXCEPT !.states[b.maxactions * Head(chels).state
                            + Head(chels).action + 1] =
             IF add + multiply * @ <= TOKENMIN THEN TOKENMIN
             ELSE add + multiply * @]

\* bz_learnchain: one bz_learnstateaction per chel, from the head on
RECURSIVE bz_learnchain(_, _, _, _)
bz_learnchain(b, chels, add, multiply) ==
    IF chels = << >> THEN b
    ELSE bz_learnchain(
             bz_learnstateaction(b, Head(chels).state, Head(chels).action,
                                 add, multiply),
             Tail(chels), add, multiply)

---------------------------------------------------------------------------
(* Inputs the callers supply                                               *)

\* (max_states, max_actions) pairs given to bz_newbrain, valid and not
Dimensions == { <<1, 2>>, <<2, 1>>, <<0, 2>>, <<2, 0>>, <<-1, 2>>, <<2, -1>> }
\* tokens_per_node values
TokenChoices == {1, 2}
\* the masks a caller may pass for a brain: NULL, or one char per action
MaskChoices(b) == {NULL} \cup [1 .. b.maxactions -> {-1, 0, 1}]
\* evse: NULL, or a pointer to a whole exponent
EvseChoices == {NULL, <<1>>, <<2>>}
\* add: +1 or -1 token; multiply: 1 (the drivers' value) or 0
AddChoices == {ONE, -ONE}
MultiplyChoices == {0, 1}

\* every weight of a brain stays within the bound of the model
Within(b) == \A k \in DOMAIN b.states : b.states[k] <= MaxTokens * ONE

---------------------------------------------------------------------------
(* The state machine                                                       *)

NoBrain == [braintype |-> 0, maxstates |-> 0, maxactions |-> 0,
            starting_tokens |-> 0, states |-> << >>]

Init ==
    /\ pc = "start"
    /\ brain = NoBrain
    /\ underflows = 0
    /\ chain = << >>
    /\ last = [op |-> "none"]
    /\ brain2 = NoBrain
    /\ chain2 = << >>
    /\ driver = [prog |-> "calls"]

\* the caller is between calls and holds a brain with both counts positive
Usable ==
    /\ pc = "run"
    /\ last.op = "none"
    /\ brain.maxstates > 0
    /\ brain.maxactions > 0

\* bz_newbrain checks the brain type only; it always returns the pointer to
\* the header it allocated (ret |-> "brain"), whatever the counts are
NewBrain ==
    /\ pc = "start"
    /\ \E d \in Dimensions, t \in TokenChoices :
          /\ brain' = bz_newbrain(BZ_BRAIN_QUANTIZED, d[1], d[2], t)
          /\ last' = [op |-> "newbrain", max_states |-> d[1], max_actions |-> d[2],
                      tokens |-> t, ret |-> "brain"]
    /\ pc' = "run"
    /\ UNCHANGED <<underflows, chain, brain2, chain2, driver>>

NextAction ==
    /\ Usable
    /\ \E cur_state \in 0 .. (brain.maxstates - 1), evse \in EvseChoices,
          mask \in MaskChoices(brain), uf \in BOOLEAN :
        IF 0 \in MeanDivisors(brain, cur_state, evse, mask)
        THEN \* a division by the zero mean: the quotient is not a number the
             \* int myrandom can hold, and the value returned is any action
             \E ret \in Actions(brain) :
               LET under == Underflow(Sumup(brain, cur_state, mask))
                   bump == under /\ uf
               IN  /\ bump => underflows < MaxUnderflows
                   /\ brain' = IF under THEN Refill(brain, cur_state, mask) ELSE brain
                   /\ underflows' = IF bump THEN underflows + 1 ELSE underflows
                   /\ last' = [op |-> "nextaction", state |-> cur_state, evse |-> evse,
                               mask |-> mask, uf |-> uf, myrandom |-> 0,
                               ret |-> ret, underflow |-> under,
                               pre |-> brain.states, preunderflows |-> underflows]
        ELSE
        \E myrandom \in bz__random(RandomMax(brain, cur_state, evse, mask)) :
          LET res == bz_nextaction(brain, cur_state, evse, mask, myrandom)
              bump == res.underflow /\ uf
          IN  /\ bump => underflows < MaxUnderflows
              /\ brain' = res.brain
              /\ underflows' = IF bump THEN underflows + 1 ELSE underflows
              /\ last' = [op |-> "nextaction", state |-> cur_state, evse |-> evse,
                          mask |-> mask, uf |-> uf, myrandom |-> myrandom,
                          ret |-> res.ret, underflow |-> res.underflow,
                          pre |-> brain.states, preunderflows |-> underflows]
    /\ UNCHANGED <<pc, chain, brain2, chain2, driver>>

\* bz_learnstateaction with the state in range and any action from -1 to
\* maxactions: an index inside the array is written; one outside it is a wild
\* write, which either lands in memory the program does not use or ends the run
LearnStateAction ==
    /\ Usable
    /\ \E state \in 0 .. (brain.maxstates - 1),
          action \in -1 .. brain.maxactions,
          add \in AddChoices, multiply \in MultiplyChoices :
        /\ IF InArray(brain, state, action)
           THEN /\ brain' = bz_learnstateaction(brain, state, action, add, multiply)
                /\ Within(brain')
                /\ pc' = pc
           ELSE /\ brain' = brain
                /\ pc' \in {pc, "crashed"}
        /\ last' = [op |-> "learnstateaction", state |-> state, action |-> action,
                    add |-> add, multiply |-> multiply, pre |-> brain.states]
    /\ UNCHANGED <<underflows, chain, brain2, chain2, driver>>

NewChain ==
    /\ Usable
    /\ chain = << >>
    /\ chain' = << bz_newchain(1) >>
    /\ last' = [op |-> "newchain"]
    /\ UNCHANGED <<pc, brain, underflows, brain2, chain2, driver>>

AddToChain ==
    /\ Usable
    /\ chain # << >>
    /\ chain[1].totalcount < MaxChain
    /\ \E state \in 0 .. (brain.maxstates - 1), action \in Actions(brain),
          mask \in {NULL} :
        /\ chain' = << bz_addtochain(chain[1], brain.maxactions, state, action, mask) >>
        /\ last' = [op |-> "addtochain", state |-> state, action |-> action,
                    mask |-> mask, prechain |-> chain[1]]
    /\ UNCHANGED <<pc, brain, underflows, brain2, chain2, driver>>

TruncateChain ==
    /\ Usable
    /\ chain # << >>
    /\ \E count \in 0 .. (MaxChain + 1) :
        LET res == bz_truncatechain(chain[1], count)
        IN  /\ chain' = << res.chain >>
            /\ last' = [op |-> "truncatechain", count |-> count, ret |-> res.ret,
                        prechain |-> chain[1]]
    /\ UNCHANGED <<pc, brain, underflows, brain2, chain2, driver>>

LearnChain ==
    /\ Usable
    /\ chain # << >>
    /\ \E add \in AddChoices, multiply \in MultiplyChoices :
        /\ brain' = bz_learnchain(brain, chain[1].chels, add, multiply)
        /\ Within(brain')
        /\ last' = [op |-> "learnchain", add |-> add, multiply |-> multiply,
                    pre |-> brain.states, chels |-> chain[1].chels]
    /\ UNCHANGED <<pc, underflows, chain, brain2, chain2, driver>>

KillChain ==
    /\ Usable
    /\ chain # << >>
    /\ chain' = << >>
    /\ last' = [op |-> "killchain"]
    /\ UNCHANGED <<pc, brain, underflows, brain2, chain2, driver>>

\* the caller takes the result and moves on to its next call
Return ==
    /\ last.op # "none"
    /\ last' = [op |-> "none"]
    /\ UNCHANGED <<pc, brain, underflows, chain, brain2, chain2, driver>>

Next ==
    \/ NewBrain
    \/ NextAction
    \/ LearnStateAction
    \/ NewChain
    \/ AddToChain
    \/ TruncateChain
    \/ LearnChain
    \/ KillChain
    \/ Return

Spec == Init /\ [][Next]_vars

---------------------------------------------------------------------------
(* Blocks and chains: a program that makes two equal brains, learns every  *)
(* visit at once on the first (bz_learnstateaction) and records it in a    *)
(* chain for the second, which it learns at the end (bz_learnchain)        *)

\* the brains of this program
BlockDimensions == { <<2, 2>>, <<1, 2>> }
\* its learning coefficients: add of +1 or -1 token, multiply of 0, 1 or 2
BlockAdds == {ONE, -ONE}
BlockMultiplies == {0, 1, 2}

BlocksInit ==
    /\ pc = "start"
    /\ brain = NoBrain
    /\ brain2 = NoBrain
    /\ underflows = 0
    /\ chain = << >>
    /\ chain2 = << >>
    /\ last = [op |-> "none"]
    /\ driver \in [prog : {"blocks"}, add : BlockAdds, multiply : BlockMultiplies]

\* two brains of the same size and filling, and the chain of the second
BlocksNewBrains ==
    /\ pc = "start"
    /\ \E d \in BlockDimensions, t \in TokenChoices :
          /\ brain' = bz_newbrain(BZ_BRAIN_QUANTIZED, d[1], d[2], t)
          /\ brain2' = bz_newbrain(BZ_BRAIN_QUANTIZED, d[1], d[2], t)
    /\ chain2' = << bz_newchain(2) >>
    /\ pc' = "visit"
    /\ last' = [op |-> "newbrain"]
    /\ UNCHANGED <<underflows, chain, driver>>

\* one visit of (state, action): learned at once on the first brain, and
\* recorded for the second
BlocksVisit ==
    /\ pc = "visit"
    /\ chain2[1].totalcount < MaxVisits
    /\ \E state \in 0 .. (brain.maxstates - 1), action \in Actions(brain) :
          /\ brain' = bz_learnstateaction(brain, state, action,
                                          driver.add, driver.multiply)
          /\ chain2' = << bz_addtochain(chain2[1], brain2.maxactions,
                                        state, action, NULL) >>
          /\ last' = [op |-> "learnstateaction", state |-> state,
                      action |-> action, add |-> driver.add,
                      multiply |-> driver.multiply,
                      pre |-> brain.states, pre2 |-> brain2.states]
    /\ UNCHANGED <<pc, underflows, chain, brain2, driver>>

\* the end of the run: the second brain learns the chain
BlocksLearnChain ==
    /\ pc = "visit"
    /\ brain2' = bz_learnchain(brain2, chain2[1].chels, driver.add, driver.multiply)
    /\ pc' = "learned"
    /\ last' = [op |-> "learnchain", add |-> driver.add,
                multiply |-> driver.multiply, chels |-> chain2[1].chels,
                pre |-> brain.states, pre2 |-> brain2.states]
    /\ UNCHANGED <<underflows, chain, brain, chain2, driver>>

BlocksNext ==
    \/ BlocksNewBrains
    \/ BlocksVisit
    \/ BlocksLearnChain

SpecBlocks == BlocksInit /\ [][BlocksNext]_vars

---------------------------------------------------------------------------
(* Sampling: a program that makes a brain of one state and two actions,    *)
(* may learn one cell once, and then calls bz_nextaction at every draw     *)
(* position in turn, with a NULL exponent, with exponent 1 and with        *)
(* exponent 2, counting how often each action is returned                  *)

\* tokens_per_node of the brain
DrawTokens == {1, 10}
\* the add of the one learn (in tokens); its multiply is 1
DrawAdds == {5, 8}

DrawInit ==
    /\ pc = "start"
    /\ brain = NoBrain
    /\ brain2 = NoBrain
    /\ underflows = 0
    /\ chain = << >>
    /\ chain2 = << >>
    /\ last = [op |-> "none"]
    /\ driver = [prog |-> "draws", k |-> 0, linear |-> <<0, 0>>,
                 exp1 |-> <<0, 0>>, exp2 |-> <<0, 0>>]

DrawNewBrain ==
    /\ pc = "start"
    /\ \E t \in DrawTokens :
          brain' = bz_newbrain(BZ_BRAIN_QUANTIZED, 1, 2, t)
    /\ pc' = "made"
    /\ last' = [op |-> "newbrain"]
    /\ UNCHANGED <<underflows, chain, brain2, chain2, driver>>

DrawLearn ==
    /\ pc = "made"
    /\ \E action \in Actions(brain), add \in DrawAdds :
          /\ brain' = bz_learnstateaction(brain, 0, action, add * ONE, 1)
          /\ last' = [op |-> "learnstateaction", state |-> 0, action |-> action,
                      add |-> add * ONE, multiply |-> 1, pre |-> brain.states]
    /\ pc' = "taught"
    /\ UNCHANGED <<underflows, chain, brain2, chain2, driver>>

\* the three calls at draw position driver.k (no mask, no underflow counter)
DrawSample ==
    /\ pc \in {"made", "taught", "sampling"}
    /\ driver.k < DrawGrid
    /\ LET At(evse) ==
               bz_nextaction(brain, 0, evse, NULL,
                             bz__randomAt(RandomMax(brain, 0, evse, NULL), driver.k))
           lin == At(NULL)
           e1 == At(<<1>>)
           e2 == At(<<2>>)
       IN  /\ brain' = e2.brain
           /\ driver' = [driver EXCEPT
                            !.k = @ + 1,
                            !.linear[lin.ret + 1] = @ + 1,
                            !.exp1[e1.ret + 1] = @ + 1,
                            !.exp2[e2.ret + 1] = @ + 1]
           /\ last' = [op |-> "sample", k |-> driver.k, linear |-> lin.ret,
                       exp1 |-> e1.ret, exp2 |-> e2.ret,
                       underflow |-> lin.underflow, pre |-> brain.states]
    /\ pc' = IF driver.k + 1 = DrawGrid THEN "swept" ELSE "sampling"
    /\ UNCHANGED <<underflows, chain, brain2, chain2>>

DrawNext ==
    \/ DrawNewBrain
    \/ DrawLearn
    \/ DrawSample

SpecDraw == DrawInit /\ [][DrawNext]_vars

---------------------------------------------------------------------------
(* Recording: a program that keeps one mask buffer, rewrites it between    *)
(* calls (as play_ttt does each turn), and appends to, truncates and       *)
(* learns one chain                                                        *)

\* what the program writes into its buffer char mask[2]
RecordMasks == { <<1, -1>>, <<-1, 1>>, <<1, 1>> }

RecordInit ==
    /\ pc = "start"
    /\ brain = NoBrain
    /\ brain2 = NoBrain
    /\ underflows = 0
    /\ chain = << >>
    /\ chain2 = << >>
    /\ last = [op |-> "none"]
    /\ driver \in [prog : {"record"}, mask : RecordMasks, appended : {<< >>}]

RecordNew ==
    /\ pc = "start"
    /\ brain' = bz_newbrain(BZ_BRAIN_QUANTIZED, 1, 2, 1)
    /\ chain' = << bz_newchain(1) >>
    /\ pc' = "run"
    /\ last' = [op |-> "newchain"]
    /\ UNCHANGED <<underflows, brain2, chain2, driver>>

\* the caller overwrites its buffer
RecordSetMask ==
    /\ pc = "run"
    /\ \E mask \in RecordMasks \ {driver.mask} :
          driver' = [driver EXCEPT !.mask = mask]
    /\ last' = [op |-> "setmask"]
    /\ UNCHANGED <<pc, brain, underflows, chain, brain2, chain2>>

\* bz_addtochain with the buffer, or with a NULL mask; driver.appended keeps,
\* for each append in order, the arguments as they were at the call
RecordAppend ==
    /\ pc = "run"
    /\ chain[1].totalcount < MaxRecord
    /\ \E action \in Actions(brain), mask \in {NULL, driver.mask} :
          /\ chain' = << bz_addtochain(chain[1], brain.maxactions, 0, action, mask) >>
          /\ driver' = [driver EXCEPT !.appended =
                            Append(@, [state |-> 0, action |-> action, mask |-> mask])]
          /\ last' = [op |-> "addtochain", prechain |-> chain[1]]
    /\ UNCHANGED <<pc, brain, underflows, brain2, chain2>>

RecordTruncate ==
    /\ pc = "run"
    /\ \E count \in 1 .. MaxRecord :
          /\ chain' = << bz_truncatechain(chain[1], count).chain >>
          /\ last' = [op |-> "truncatechain", prechain |-> chain[1]]
    /\ UNCHANGED <<pc, brain, underflows, brain2, chain2, driver>>

RecordLearn ==
    /\ pc = "run"
    /\ brain' = bz_learnchain(brain, chain[1].chels, ONE, 1)
    /\ Within(brain')
    /\ last' = [op |-> "learnchain", prechain |-> chain[1]]
    /\ UNCHANGED <<pc, underflows, chain, brain2, chain2, driver>>

RecordNext ==
    \/ RecordNew
    \/ RecordSetMask
    \/ RecordAppend
    \/ RecordTruncate
    \/ RecordLearn

SpecRecord == RecordInit /\ [][RecordNext]_vars

---------------------------------------------------------------------------
(* Tic-tac-toe (src/tictactoe.c): main makes two brains and plays games in *)
(* pairs, the brains taking turns to move first; play_ttt records each     *)
(* brain's moves in its chain and learns both chains when the game ends.   *)
(* The boxes arrays (19683 x 9 weights each) are not represented: a call   *)
(* of bz_nextaction yields any index its walk can return, and a call of    *)
(* bz_learnchain is entered in driver.learns with its arguments.           *)

\* STATES and ACTIONS of tictactoe.c (both words are reserved in TLA+)
TTT_STATES == 19683
TTT_ACTIONS == 9
TOKENS == 100
MAX_TURNS == 10
\* the coefficients of the configuration compiled in (PLUSMINUS1OH1EVSE50)
WIN_ADD == ONE
WIN_MUL == 1
LOSE_ADD == -ONE
LOSE_MUL == 1
DRAW_ADD == ONE \div 10
DRAW_MUL == 1

\* the three-in-a-row lines of the board, squares numbered 0 .. 8
Lines == { {0, 1, 2}, {3, 4, 5}, {6, 7, 8}, {0, 3, 6}, {1, 4, 7}, {2, 5, 8},
           {0, 4, 8}, {6, 4, 2} }

\* (a variant of victory () without the test for a full board)
victory_NoDraw(gb) ==
    IF \E l \in Lines : \A sq \in l : gb[sq + 1] = 2 THEN 2
    ELSE IF \E l \in Lines : \A sq \in l : gb[sq + 1] = 1 THEN 1
    ELSE 0

\* victory (): 2 or 1 when that player holds a line (2 is tested first), -1
\* when the board is full, 0 otherwise
victory(gb) ==
    IF \E l \in Lines : \A sq \in l : gb[sq + 1] = 2 THEN 2
    ELSE IF \E l \in Lines : \A sq \in l : gb[sq + 1] = 1 THEN 1
    ELSE IF \A sq \in 0 .. 8 : gb[sq + 1] # 0 THEN -1
    ELSE 0

\* gbs (): the board as a base-3 number
RECURSIVE gbsFrom(_, _)
gbsFrom(gb, i) == IF i > 8 THEN 0 ELSE gb[i + 1] + 3 * gbsFrom(gb, i + 1)

gbs(gb) == gbsFrom(gb, 0)

\* (a variant of execute_move () that takes the square it is given)
FirstFree_Unchecked(gb, square, i) == square

\* execute_move (): the first free square from square on, wrapping round;
\* -1 when there is none (the program then exits)
RECURSIVE FirstFree(_, _, _)
FirstFree(gb, square, i) ==
    IF i >= 9 THEN -1
    ELSE IF gb[((square + i) % 9) + 1] = 0 THEN (square + i) % 9
    ELSE FirstFree(gb, square, i + 1)

execute_move(gb, square, value) ==
    [gb EXCEPT ![FirstFree(gb, square, 0) + 1] = value]

\* the masks play_ttt builds: for b1, gb[i] ? -1 : 1; for b2, !(gb[i])
Mask1(gb) == [i \in 1 .. 9 |-> IF gb[i] # 0 THEN -1 ELSE 1]
Mask2(gb) == [i \in 1 .. 9 |-> IF gb[i] # 0 THEN 0 ELSE 1]

\* what bz_nextaction can return for a mask: an index the mask test lets
\* through (here one of the first MaxPick of them), or the final return 0
TttReturns(mask) ==
    {0} \cup { i \in 0 .. (TTT_ACTIONS - 1) :
                 /\ Allowed(mask, i)
                 /\ Cardinality({j \in 0 .. (i - 1) : Allowed(mask, j)}) < MaxPick }

\* the two bz_learnchain calls at the end of play_ttt, in order, for the
\* brain b1 that moved first, the other brain b2 and their chains s1, s2
LearnCalls_SwappedChains(victor, b1, s1, b2, s2) ==
    IF victor = 1
    THEN << [brain |-> b1, chain |-> s2, add |-> WIN_ADD, multiply |-> WIN_MUL],
            [brain |-> b2, chain |-> s1, add |-> LOSE_ADD, multiply |-> LOSE_MUL] >>
    ELSE IF victor = 2
    THEN << [brain |-> b2, chain |-> s1, add |-> WIN_ADD, multiply |-> WIN_MUL],
            [brain |-> b1, chain |-> s2, add |-> LOSE_ADD, multiply |-> LOSE_MUL] >>
    ELSE << [brain |-> b2, chain |-> s1, add |-> DRAW_ADD, multiply |-> DRAW_MUL],
            [brain |-> b1, chain |-> s2, add |-> DRAW_ADD, multiply |-> DRAW_MUL] >>

LearnCalls(victor, b1, s1, b2, s2) ==
    IF victor = 1
    THEN << [brain |-> b1, chain |-> s1, add |-> WIN_ADD, multiply |-> WIN_MUL],
            [brain |-> b2, chain |-> s2, add |-> LOSE_ADD, multiply |-> LOSE_MUL] >>
    ELSE IF victor = 2
    THEN << [brain |-> b2, chain |-> s2, add |-> WIN_ADD, multiply |-> WIN_MUL],
            [brain |-> b1, chain |-> s1, add |-> LOSE_ADD, multiply |-> LOSE_MUL] >>
    ELSE << [brain |-> b2, chain |-> s2, add |-> DRAW_ADD, multiply |-> DRAW_MUL],
            [brain |-> b1, chain |-> s1, add |-> DRAW_ADD, multiply |-> DRAW_MUL] >>

\* the value play_ttt returns after its two bz_learnchain calls
PlayReturn(victor) == IF victor = 1 THEN 1 ELSE IF victor = 2 THEN 2 ELSE 0

\* the header of a brain whose boxes array is not represented
BrainHeader(max_states, max_actions, tokens_per_node) ==
    [braintype |-> 0, maxstates |-> max_states, maxactions |-> max_actions,
     starting_tokens |-> tokens_per_node]

\* the chain variable that holds chain number n (chain1 or chain2 of main)
ChainNo(n) == IF n = 1 THEN chain[1] ELSE chain2[1]

TttInit ==
    /\ pc = "start"
    /\ brain = NoBrain
    /\ brain2 = NoBrain
    /\ underflows = 0
    /\ chain = << >>
    /\ chain2 = << >>
    /\ last = [op |-> "none"]
    /\ driver = [prog |-> "ttt", games |-> 0, first |-> 1,
                 gb |-> [i \in 1 .. 9 |-> 0], movecount |-> 0, victor |-> 0,
                 picks |-> {}, learns |-> << >>]

\* main: the two bz_newbrain calls
TttNewBrains ==
    /\ pc = "start"
    /\ brain' = BrainHeader(TTT_STATES, TTT_ACTIONS, TOKENS)
    /\ brain2' = BrainHeader(TTT_STATES, TTT_ACTIONS, TOKENS)
    /\ pc' = "main"
    /\ UNCHANGED <<underflows, chain, chain2, last, driver>>

\* main: chain1 and chain2 are made and play_ttt is entered, with brain1
\* moving first in the first game of a pair and brain2 in the second;
\* play_ttt clears the board.  driver.picks and driver.learns keep, for this
\* game, the selections made and the bz_learnchain calls made
TttNewGame ==
    /\ pc = "main"
    /\ driver.games < MaxGames
    /\ chain' = << bz_newchain(1) >>
    /\ chain2' = << bz_newchain(2) >>
    /\ driver' = [driver EXCEPT
                     !.first = IF driver.games % 2 = 0 THEN 1 ELSE 2,
                     !.gb = [i \in 1 .. 9 |-> 0],
                     !.movecount = 0,
                     !.victor = 0,
                     !.picks = {},
                     !.learns = << >>]
    /\ pc' = "b1"
    /\ last' = [op |-> "newchain"]
    /\ UNCHANGED <<brain, brain2, underflows>>

\* one move of play_ttt by player value (1 for b1, 2 for b2) with brain
\* number b, from the selection to the test of the victor
TttMove(value, b, mask) ==
    \E move \in TttReturns(mask) :
        LET state == gbs(driver.gb)
            c == bz_addtochain(ChainNo(b), TTT_ACTIONS, state, move, mask)
            free == FirstFree(driver.gb, move, 0)
            gb2 == execute_move(driver.gb, move, value)
            v == victory(gb2)
            \* b1's half ends with movecount++ and the test against MAX_TURNS;
            \* b2's half ends at the head of the while loop
            mc == IF value = 1 /\ v = 0 THEN driver.movecount + 2
                  ELSE IF value = 1 THEN driver.movecount + 1
                  ELSE driver.movecount
            over == \/ v # 0
                    \/ value = 1 /\ mc > MAX_TURNS
                    \/ value = 2 /\ ~(mc < MAX_TURNS)
        IN  /\ IF b = 1 THEN chain' = << c >> /\ chain2' = chain2
                        ELSE chain2' = << c >> /\ chain' = chain
            /\ last' = [op |-> "addtochain", brain |-> b, state |-> state,
                        move |-> move, value |-> value]
            /\ IF free = -1
               THEN /\ pc' = "exited"
                    /\ driver' = [driver EXCEPT !.picks = @ \cup {<<b, state, move>>}]
               ELSE /\ driver' = [driver EXCEPT
                                    !.gb = gb2, !.victor = v, !.movecount = mc,
                                    !.picks = @ \cup {<<b, state, move>>}]
                    /\ pc' = IF over THEN "learn" ELSE IF value = 1 THEN "b2" ELSE "b1"

TttTurn1 ==
    /\ pc = "b1"
    /\ TttMove(1, driver.first, Mask1(driver.gb))
    /\ UNCHANGED <<brain, brain2, underflows>>

TttTurn2 ==
    /\ pc = "b2"
    /\ TttMove(2, 3 - driver.first, Mask2(driver.gb))
    /\ UNCHANGED <<brain, brain2, underflows>>

\* the next bz_learnchain call of play_ttt; the entry keeps the brain and the
\* chain passed, the coefficients, the brain the chain was made for and the
\* number of appends the chain had seen
TttLearn ==
    /\ pc = "learn"
    /\ LET n == Len(driver.learns) + 1
           call == LearnCalls(driver.victor, driver.first, driver.first,
                              3 - driver.first, 3 - driver.first)[n]
       IN  /\ driver' = [driver EXCEPT !.learns =
                            Append(@, [brain |-> call.brain, chain |-> call.chain,
                                       add |-> call.add, multiply |-> call.multiply,
                                       madefor |-> ChainNo(call.chain).brain,
                                       appends |-> ChainNo(call.chain).totalcount])]
           /\ last' = [op |-> "learnchain", brain |-> call.brain,
                       returns |-> IF n = 2 THEN <<PlayReturn(driver.victor)>>
                                   ELSE << >>]
           /\ pc' = IF n = 2 THEN "returned" ELSE "learn"
    /\ UNCHANGED <<brain, brain2, underflows, chain, chain2>>

\* main: play_ttt has returned; both chains are killed
TttKillChains ==
    /\ pc = "returned"
    /\ chain' = << >>
    /\ chain2' = << >>
    /\ driver' = [driver EXCEPT !.games = @ + 1]
    /\ pc' = "main"
    /\ last' = [op |-> "killchain"]
    /\ UNCHANGED <<brain, brain2, underflows>>

TttNext ==
    \/ TttNewBrains
    \/ TttNewGame
    \/ TttTurn1
    \/ TttTurn2
    \/ TttLearn
    \/ TttKillChains

SpecTtt == TttInit /\ [][TttNext]_vars

---------------------------------------------------------------------------
(* Ball and track (src/balltrack.c): main makes one brain and one chain and *)
(* loops: it moves the track and the ball, quantizes what it sees into the  *)
(* state queues, appends (quan_state, track_cmd) to the chain, truncates    *)
(* the chain to TVIS chels, learns the chain once reps > TVIS and asks the  *)
(* brain for the next track command.  The physics is not represented: each  *)
(* iteration sees any of a few quantized positions.  The boxes array is not *)
(* represented either.  TVIS is a #define (1 in balltrack.h); the model     *)
(* builds the program for each value from 1 to MaxTvis.                     *)

NBALLQ == 5
NTRACKQ == 5
BALL_ACTIONS == 3

\* STATES: pow (NBALLQ * NTRACKQ, TVIS)
BallStates(tvis) == Pow(NBALLQ * NTRACKQ, tvis)

\* the quantized ball positions and track angles an iteration may see
BallCells == {0, NBALLQ - 1}
TrackCells == {(NTRACKQ - 1) \div 2}

\* set_quantized_state_queues (): the queue slides down one step and the
\* newest value goes in at the end
set_quantized_state_queues(vec, newest) == Tail(vec) \o <<newest>>

\* que_to_quan_state (): the two queues as one number, interleaved in base
\* NBALLQ and NTRACKQ, from timeslice ti on with multiplier bmax
RECURSIVE que_to_quan_state(_, _, _, _)
que_to_quan_state(qball, qtrack, ti, bmax) ==
    IF ti > Len(qball) THEN 0
    ELSE qball[ti] * bmax + qtrack[ti] * bmax * NBALLQ
         + que_to_quan_state(qball, qtrack, ti + 1, bmax * NBALLQ * NTRACKQ)

\* the mask parameter of bz_addtochain as the call in main leaves it: main
\* sees the three-parameter declaration of bzerker.h and passes no mask, so
\* the function reads whatever the fourth argument slot holds: NULL, or a
\* pointer to bytes it can copy (BallFault is the pointer it cannot read)
UnpassedMask == {NULL, <<1, -1, 0>>}

BallInit ==
    /\ pc = "start"
    /\ brain = NoBrain
    /\ brain2 = NoBrain
    /\ underflows = 0
    /\ chain = << >>
    /\ chain2 = << >>
    /\ last = [op |-> "none"]
    /\ \E tvis \in 1 .. MaxTvis :
          driver = [prog |-> "ball", tvis |-> tvis, reps |-> 0, track_cmd |-> 0,
                    qball_vec |-> [i \in 1 .. tvis |-> 0],
                    qtrack_vec |-> [i \in 1 .. tvis |-> 0],
                    quan_state |-> 0, learns |-> 0]

\* main up to the loop: bz_newbrain, bz_newchain, init_physics
BallSetup ==
    /\ pc = "start"
    /\ brain' = BrainHeader(BallStates(driver.tvis), BALL_ACTIONS, TOKENS)
    /\ chain' = << bz_newchain(1) >>
    /\ driver' = [driver EXCEPT !.track_cmd = (BALL_ACTIONS - 1) \div 2]
    /\ last' = [op |-> "newchain"]
    /\ pc' = "loop"
    /\ UNCHANGED <<underflows, brain2, chain2>>

\* steps 1 to 6 of an iteration up to the truncation: the queues take the
\* new quantized values, (quan_state, track_cmd) is appended and the chain
\* is truncated to TVIS
BallRecord ==
    /\ pc = "loop"
    /\ driver.reps < MaxReps
    /\ \E ball \in BallCells, track \in TrackCells, mask \in UnpassedMask :
          LET qb == set_quantized_state_queues(driver.qball_vec, ball)
              qt == set_quantized_state_queues(driver.qtrack_vec, track)
              state == que_to_quan_state(qb, qt, 1, 1)
              c == bz_addtochain(chain[1], brain.maxactions, state,
                                 driver.track_cmd, mask)
              t == bz_truncatechain(c, driver.tvis)
          IN  /\ chain' = << t.chain >>
              /\ driver' = [driver EXCEPT !.qball_vec = qb, !.qtrack_vec = qt,
                                          !.quan_state = state]
              /\ last' = [op |-> "record", appended |-> c, ret |-> t.ret]
    /\ pc' = "recorded"
    /\ UNCHANGED <<brain, underflows, brain2, chain2>>

\* the same steps when the fourth argument slot holds a pointer that cannot
\* be read: memcpy faults inside bz_addtochain and the program ends
BallFault ==
    /\ pc = "loop"
    /\ driver.reps < MaxReps
    /\ pc' = "faulted"
    /\ last' = [op |-> "fault"]
    /\ UNCHANGED <<brain, underflows, chain, brain2, chain2, driver>>

\* the rest of the iteration: bz_learnchain once reps > TVIS (counted in
\* driver.learns), bz_nextaction for the next track command, reps++
BallAct ==
    /\ pc = "recorded"
    /\ \E cmd \in 0 .. (BALL_ACTIONS - 1) :
          driver' = [driver EXCEPT
                       !.learns = IF driver.reps > driver.tvis THEN @ + 1 ELSE @,
                       !.track_cmd = cmd,
                       !.reps = @ + 1]
    /\ last' = [op |-> "nextaction"]
    /\ pc' = "loop"
    /\ UNCHANGED <<brain, underflows, chain, brain2, chain2>>

BallNext ==
    \/ BallSetup
    \/ BallRecord
    \/ BallFault
    \/ BallAct

SpecBall == BallInit /\ [][BallNext]_vars

---------------------------------------------------------------------------
(* The random source.  bz__random_init (seed) is srandom (seed); bz__random *)
(* takes the next value of random ().  The C library's generator is taken   *)
(* as a deterministic stream: a state that srandom sets from the seed and   *)
(* that every random () call advances.                                      *)

\* the generator has this many states
RngModulus == 16

\* (a variant that does not call srandom: the generator keeps its state)
bz__random_init_NoSrandom(rng, seed) == rng

\* the generator state after bz__random_init (seed), whatever it was before
bz__random_init(rng, seed) == seed % RngModulus

\* random (): the state after the call, which is also the value returned
RandomNext(rng) == (5 * rng + 3) % RngModulus

\* the draw position of a value of random (): value / RAND_MAX, on the grid
RandomPosition(value) == (value * DrawGrid) \div (RngModulus - 1)

---------------------------------------------------------------------------
(* Repeated runs: a program that seeds the random source, makes a brain    *)
(* and a chain and makes a sequence of library calls; then seeds the       *)
(* source again with the same seed, makes a second brain and chain and     *)
(* makes the same calls again                                              *)

TwinSeeds == {1, 7}

\* the calls of a run: selections, single-cell learns, and the chain calls
\* (the append records the action the latest selection returned)
TwinCalls ==
    [op : {"nextaction"}, evse : {NULL, <<2>>}, mask : {NULL, <<-1, 1>>, <<1, -1>>}]
    \cup [op : {"learnstateaction"}, action : {0, 1}, add : {ONE, -ONE}]
    \cup [op : {"addtochain"}]
    \cup [op : {"truncatechain"}, count : {1}]
    \cup [op : {"learnchain"}, add : {ONE, -ONE}]

\* one call made on the brain b, the chain c and the underflow counter u of a
\* run, with the generator in state rng and prev the latest action returned:
\* what the call leaves behind and what it returns
ApplyCall(call, b, c, u, rng, prev) ==
    IF call.op = "nextaction"
    THEN LET value == RandomNext(rng)
             res == bz_nextaction(b, 0, call.evse, call.mask,
                        bz__randomAt(RandomMax(b, 0, call.evse, call.mask),
                                     RandomPosition(value)))
         IN  [brain |-> res.brain, chain |-> c,
              underflows |-> IF res.underflow THEN u + 1 ELSE u,
              rng |-> value, ret |-> res.ret]
    ELSE IF call.op = "learnstateaction"
    THEN [brain |-> bz_learnstateaction(b, 0, call.action, call.add, 1),
          chain |-> c, underflows |-> u, rng |-> rng, ret |-> prev]
    ELSE IF call.op = "addtochain"
    THEN [brain |-> b, chain |-> bz_addtochain(c, b.maxactions, 0, prev, NULL),
          underflows |-> u, rng |-> rng, ret |-> prev]
    ELSE IF call.op = "truncatechain"
    THEN [brain |-> b, chain |-> bz_truncatechain(c, call.count).chain,
          underflows |-> u, rng |-> rng, ret |-> prev]
    ELSE [brain |-> bz_learnchain(b, c.chels, call.add, 1), chain |-> c,
          underflows |-> u, rng |-> rng, ret |-> prev]

TwinInit ==
    /\ pc = "start"
    /\ brain = NoBrain
    /\ brain2 = NoBrain
    /\ underflows = 0
    /\ chain = << >>
    /\ chain2 = << >>
    /\ last = [op |-> "none"]
    /\ driver \in [prog : {"twin"}, seed : TwinSeeds, rng : {1},
                    calls : {<< >>}, rets : {<< >>}, rets2 : {<< >>},
                    underflows2 : {0}]

\* either run begins: bz__random_init (seed), bz_newbrain, bz_newchain
TwinBegin ==
    /\ pc = "start"
    /\ driver' = [driver EXCEPT !.rng = bz__random_init(driver.rng, driver.seed)]
    /\ brain' = bz_newbrain(BZ_BRAIN_QUANTIZED, 1, 2, 1)
    /\ chain' = << bz_newchain(1) >>
    /\ pc' = "first"
    /\ last' = [op |-> "newbrain"]
    /\ UNCHANGED <<underflows, brain2, chain2>>

\* a call of the first run
TwinCall ==
    /\ pc = "first"
    /\ Len(driver.calls) < MaxCalls
    /\ \E call \in TwinCalls :
          LET prev == IF driver.rets = << >> THEN 0
                      ELSE driver.rets[Len(driver.rets)]
              res == ApplyCall(call, brain, chain[1], underflows, driver.rng, prev)
          IN  /\ brain' = res.brain
              /\ chain' = << res.chain >>
              /\ underflows' = res.underflows
              /\ driver' = [driver EXCEPT !.rng = res.rng,
                                          !.calls = Append(@, call),
                                          !.rets = Append(@, res.ret)]
              /\ last' = [op |-> call.op]
    /\ UNCHANGED <<pc, brain2, chain2>>

\* the second run begins, seeded like the first
TwinAgain ==
    /\ pc = "first"
    /\ driver' = [driver EXCEPT !.rng = bz__random_init(driver.rng, driver.seed)]
    /\ brain2' = bz_newbrain(BZ_BRAIN_QUANTIZED, 1, 2, 1)
    /\ chain2' = << bz_newchain(2) >>
    /\ pc' = "second"
    /\ last' = [op |-> "newbrain"]
    /\ UNCHANGED <<brain, underflows, chain>>

\* the next call of the second run: the call the first run made at that place
TwinRepeat ==
    /\ pc = "second"
    /\ Len(driver.rets2) < Len(driver.calls)
    /\ LET call == driver.calls[Len(driver.rets2) + 1]
           prev == IF driver.rets2 = << >> THEN 0
                   ELSE driver.rets2[Len(driver.rets2)]
           res == ApplyCall(call, brain2, chain2[1], driver.underflows2,
                            driver.rng, prev)
       IN  /\ brain2' = res.brain
           /\ chain2' = << res.chain >>
           /\ driver' = [driver EXCEPT !.rng = res.rng,
                                       !.underflows2 = res.underflows,
                                       !.rets2 = Append(@, res.ret)]
           /\ last' = [op |-> call.op]
    /\ UNCHANGED <<pc, brain, underflows, chain>>

TwinNext ==
    \/ TwinBegin
    \/ TwinCall
    \/ TwinAgain
    \/ TwinRepeat

SpecTwin == TwinInit /\ [][TwinNext]_vars

---------------------------------------------------------------------------
(* Vocabulary of the properties                                            *)

\* the documented meaning of a mask (bzerker.c, HOW TO USE IT): an entry > 0
\* marks a permitted action, an entry <= 0 a forbidden one; NULL permits all
Permitted(mask, i) == mask = NULL \/ mask[i + 1] > 0

\* the sum of the weights of the permitted actions of a state in the boxes array st
RECURSIVE PermittedSum(_, _, _, _, _)
PermittedSum(st, maxactions, state, mask, i) ==
    IF i >= maxactions THEN 0
    ELSE (IF Permitted(mask, i) THEN st[maxactions * state + i + 1] ELSE 0)
         + PermittedSum(st, maxactions, state, mask, i + 1)

Max(x, y) == IF x >= y THEN x ELSE y
Min(x, y) == IF x <= y THEN x ELSE y

\* n applications of w -> max(add + multiply * w, TOKENMIN)
RECURSIVE NFold(_, _, _, _)
NFold(w, n, add, multiply) ==
    IF n = 0 THEN w
    ELSE NFold(Max(add + multiply * w, TOKENMIN), n - 1, add, multiply)

\* how many chels of a list name the cell at index k of the boxes array
Visits(chels, maxactions, k) ==
    Cardinality({j \in 1 .. Len(chels) :
                    maxactions * chels[j].state + chels[j].action + 1 = k})

\* the rearrangements of a list of chels
Permutations(chels) ==
    { [j \in 1 .. Len(chels) |-> chels[f[j]]] :
        f \in { g \in [1 .. Len(chels) -> 1 .. Len(chels)] :
                  \A x, y \in 1 .. Len(chels) : x # y => g[x] # g[y] } }

\* the cells of the boxes array a list of chels names
Named(chels, maxactions) ==
    { maxactions * chels[j].state + chels[j].action + 1 : j \in 1 .. Len(chels) }

\* player p (1 moves first, 2 second) holds three in a row on the board
HasLine(gb, p) ==
    \E l \in { {1, 2, 3}, {4, 5, 6}, {7, 8, 9}, {1, 4, 7}, {2, 5, 8}, {3, 6, 9},
                {1, 5, 9}, {3, 5, 7} } : \A sq \in l : gb[sq] = p

\* the brain that plays as player p in the current game
BrainOf(p) == IF p = 1 THEN driver.first ELSE 3 - driver.first

\* the mark on square i (0 .. 8) of the board that the number state encodes
Digit(state, i) == (state \div Pow(3, i)) % 3

\* the number of marked squares of a board
Marks(gb) == Cardinality({i \in 1 .. 9 : gb[i] # 0})

\* the number of actions a mask permits
LegalCount(b, mask) == Cardinality({i \in Actions(b) : Permitted(mask, i)})

\* the weights of the permitted actions 0 .. i of a state, added up
RECURSIVE CumWeight(_, _, _, _)
CumWeight(b, state, mask, i) ==
    IF i < 0 THEN 0
    ELSE (IF Permitted(mask, i) THEN Weight(b, state, i) ELSE 0)
         + CumWeight(b, state, mask, i - 1)

\* the same for the exponentiated relative weights, in units of 1 / ExpDen
RECURSIVE CumExp(_, _, _, _, _, _)
CumExp(b, state, mask, maxacts, expval, i) ==
    IF i < 0 THEN 0
    ELSE (IF Permitted(mask, i)
          THEN ExpNum(Weight(b, state, i), maxacts, expval) ELSE 0)
         + CumExp(b, state, mask, maxacts, expval, i - 1)

---------------------------------------------------------------------------
(* Properties                                                              *)

\* C1 -- Selection respects legality: when the mask permits at least one
\* action, bz_nextaction does not return an index the mask forbids.  Stated
\* for the entries every reading of the mask agrees are forbidden, the
\* negative ones: the returned index never has a negative mask entry.
C1_SelectionRespectsLegality ==
    ( /\ last.op = "nextaction"
      /\ last.mask # NULL
      /\ \E i \in 1 .. Len(last.mask) : last.mask[i] > 0 )
    => last.mask[last.ret + 1] >= 0

\* C2 -- Underflow self-heals: a bz_nextaction call on a state whose permitted
\* weights sum to one token or less, made with an underflow counter (and a
\* mask that permits some action), adds exactly 1 to the counter and leaves
\* every permitted action of the state at starting_tokens.
C2_UnderflowSelfHeals ==
    ( /\ last.op = "nextaction"
      /\ last.uf
      /\ \E i \in Actions(brain) : Permitted(last.mask, i)
      /\ PermittedSum(last.pre, brain.maxactions, last.state, last.mask, 0) <= ONE )
    => /\ underflows = last.preunderflows + 1
       /\ \A i \in Actions(brain) :
             Permitted(last.mask, i)
             => Weight(brain, last.state, i) = brain.starting_tokens * ONE

\* C3 -- The learning rule is affine with a floor: after bz_learnchain every
\* cell holds the n-fold application of w -> max(add + multiply * w, TOKENMIN)
\* to its old weight, n being the number of chels that name the cell.
C3_LearnChainAffineWithFloor ==
    last.op = "learnchain"
    => \A k \in DOMAIN brain.states :
          brain.states[k] =
              NFold(last.pre[k], Visits(last.chels, brain.maxactions, k),
                    last.add, last.multiply)

\* the chain named one cell twice, add = -1 token, multiply = 1, and the cell
\* ended at the floor
C3_Witness ==
    /\ last.op = "learnchain"
    /\ last.add = -ONE
    /\ last.multiply = 1
    /\ \E k \in DOMAIN brain.states :
          /\ Visits(last.chels, brain.maxactions, k) = 2
          /\ last.pre[k] > TOKENMIN
          /\ brain.states[k] = TOKENMIN

\* C4 -- Weight floor: in a brain made with starting_tokens > 0 every weight
\* is at least TOKENMIN, hence positive, after any sequence of calls.
C4_WeightFloor ==
    brain.starting_tokens > 0
    => \A k \in DOMAIN brain.states :
          brain.states[k] >= TOKENMIN /\ brain.states[k] > 0

\* a learning call has just clamped a cell to the floor
C4_Witness ==
    /\ last.op \in {"learnstateaction", "learnchain"}
    /\ \E k \in DOMAIN brain.states :
          /\ last.pre[k] > TOKENMIN
          /\ last.add + last.multiply * last.pre[k] < 0
          /\ brain.states[k] = TOKENMIN

\* C5 -- Truncation: bz_truncatechain (chain, count) with count >= 1 on a
\* chain of n chels leaves exactly the min(n, count) most recently appended
\* ones, in their order, and returns max(n - count, 0).
C5_TruncationCorrect ==
    ( last.op = "truncatechain" /\ last.count >= 1 )
    => LET before == last.prechain.chels
           after == chain[1].chels
           n == Len(before)
           keep == Min(n, last.count)
       IN  /\ Len(after) = keep
           /\ \A j \in 1 .. keep : after[j] = before[j]
           \* the kept ones are the most recently appended: every dropped
           \* chel was appended before every kept one
           /\ \A j \in 1 .. keep : \A d \in (keep + 1) .. n :
                 before[d].seq < after[j].seq
           /\ last.ret = Max(n - last.count, 0)

\* three chels truncated to two: one dropped
C5_Witness ==
    /\ last.op = "truncatechain"
    /\ last.count = 2
    /\ Len(last.prechain.chels) = 3
    /\ Len(chain[1].chels) = 2
    /\ last.ret = 1

\* C6 -- Construction fills the table: right after bz_newbrain with positive
\* counts every cell holds starting_tokens, so each state's weights sum to
\* action_count * starting_tokens.
C6_ConstructionFillsTable ==
    ( last.op = "newbrain" /\ last.max_states > 0 /\ last.max_actions > 0 )
    => /\ brain.maxstates = last.max_states
       /\ brain.maxactions = last.max_actions
       /\ brain.starting_tokens = last.tokens
       /\ Len(brain.states) = last.max_states * last.max_actions
       /\ \A s \in 0 .. (last.max_states - 1) :
             /\ \A a \in 0 .. (last.max_actions - 1) :
                   Weight(brain, s, a) = last.tokens * ONE
             /\ PermittedSum(brain.states, brain.maxactions, s, NULL, 0)
                   = last.max_actions * last.tokens * ONE

\* a brain of 2 states by 1 action, 2 tokens each, has just been made
C6_Witness ==
    /\ last.op = "newbrain"
    /\ last.max_states = 2
    /\ last.max_actions = 1
    /\ last.tokens = 2
    /\ Len(brain.states) = 2

\* C7 -- Mask encoding: an entry <= 0 forbids, an entry > 0 permits; for a
\* mask with at least one entry > 0, the index bz_nextaction returns never has
\* a mask entry that is 0 or negative.  Stated for the masks play_ttt builds
\* for its second player, !(gb[i]): entries 0 (forbidden) and 1 (permitted).
C7_MaskEncoding ==
    ( /\ last.op = "nextaction"
      /\ last.mask # NULL
      /\ \A i \in 1 .. Len(last.mask) : last.mask[i] \in {0, 1}
      /\ \E i \in 1 .. Len(last.mask) : last.mask[i] > 0 )
    => last.mask[last.ret + 1] > 0

\* C8 -- Empty legal set: a bz_nextaction call whose mask forbids every action
\* (here: every entry negative) does not return an action index, and changes
\* neither a weight nor the underflow counter.
C8_EmptyLegalSetNoMutation ==
    ( /\ last.op = "nextaction"
      /\ last.mask # NULL
      /\ \A i \in 1 .. Len(last.mask) : last.mask[i] < 0 )
    => /\ brain.states = last.pre
       /\ underflows = last.preunderflows
       /\ last.ret \notin Actions(brain)

\* C9 -- Out-of-range indices: a learn call whose action is outside
\* [0, action_count) is rejected: it changes no weight of any cell (an action
\* index >= action_count does not update a cell of another state).
C9_OutOfRangeRejected ==
    ( /\ last.op = "learnstateaction"
      /\ last.action \notin Actions(brain) )
    => brain.states = last.pre

\* C10 -- Invalid dimensions: bz_newbrain with a count <= 0 fails and hands
\* back no brain.
C10_InvalidDimensionRejected ==
    ( last.op = "newbrain" /\ (last.max_states <= 0 \/ last.max_actions <= 0) )
    => last.ret # "brain"

\* C11 -- Selection frame: a bz_nextaction call on a state whose permitted
\* weights sum to more than one token changes no weight and leaves the
\* underflow counter alone; any call changes only weights of permitted actions
\* of the state it was made on (forbidden actions of that state and all other
\* states keep their weights).  Stated for calls whose mask permits some action.
C11_SelectionFrame ==
    ( /\ last.op = "nextaction"
      /\ \E i \in Actions(brain) : Permitted(last.mask, i) )
    => /\ PermittedSum(last.pre, brain.maxactions, last.state, last.mask, 0) > ONE
          => (brain.states = last.pre /\ underflows = last.preunderflows)
       /\ \A k \in DOMAIN brain.states :
             brain.states[k] # last.pre[k]
             => \E i \in Actions(brain) :
                   /\ Permitted(last.mask, i)
                   /\ k = Index(brain, last.state, i) + 1

\* C12 -- Learning frame: bz_learnstateaction (brain, s, a, ...) with indices
\* in range changes only the cell (s, a); bz_learnchain changes only cells
\* named by a chel of the chain; sibling actions and other states keep their
\* weights, and the other brain is not touched.
C12_LearningFrame ==
    /\ last.op = "learnstateaction"
       => /\ \A k \in DOMAIN brain.states :
                k # Index(brain, last.state, last.action) + 1
                => brain.states[k] = last.pre[k]
          /\ Len(brain.states) = Len(last.pre)
          /\ brain2.states = last.pre2
    /\ last.op = "learnchain"
       => /\ \A k \in DOMAIN brain2.states :
                k \notin Named(last.chels, brain2.maxactions)
                => brain2.states[k] = last.pre2[k]
          /\ Len(brain2.states) = Len(last.pre2)
          /\ brain.states = last.pre

\* both brains are 2 x 2; the first has been changed by single-cell learns and
\* the second by a chain naming two of its four cells, the other two unchanged
C12_Witness ==
    /\ last.op = "learnchain"
    /\ brain2.maxstates = 2
    /\ brain2.maxactions = 2
    /\ Cardinality(Named(last.chels, brain2.maxactions)) = 2
    /\ \A k \in Named(last.chels, brain2.maxactions) : brain2.states[k] # last.pre2[k]
    /\ brain.states # last.pre2

\* C14 -- Order independence: bz_learnchain on any rearrangement of the chels
\* of a chain leaves the same brain as on the chain itself.
C14_LearnChainOrderIndependent ==
    last.op = "learnchain"
    => \A perm \in Permutations(last.chels) :
          bz_learnchain([brain2 EXCEPT !.states = last.pre2], perm,
                        last.add, last.multiply) = brain2

\* a chain of three chels naming at least two cells has been learned
C14_Witness ==
    /\ last.op = "learnchain"
    /\ Len(last.chels) = 3
    /\ Cardinality(Named(last.chels, brain2.maxactions)) >= 2
    /\ brain2.states # last.pre2

\* C15 -- Blocks and chains agree: learning each visit at once with
\* bz_learnstateaction, and recording the visits in a chain that is learned
\* with bz_learnchain and the same coefficients, leave equal weights.
C15_BlocksEqualChains ==
    pc = "learned" => brain.states = brain2.states

\* three visits, one cell visited more than once, weights changed
C15_Witness ==
    /\ pc = "learned"
    /\ Len(last.chels) = 3
    /\ Cardinality(Named(last.chels, brain2.maxactions)) = 2
    /\ brain2.states # last.pre2
    /\ driver.multiply = 2

\* C13 -- Sampling fallback: when the walk of bz_nextaction ends without any
\* index bringing the draw to <= 0, the call returns the last legal index (the
\* highest index the mask permits).  Stated for masks without 0 entries, on
\* which the code's test and the documented encoding agree.
C13_FallbackLastLegal ==
    ( /\ last.op = "nextaction"
      /\ last.mask # NULL
      /\ \A i \in Actions(brain) : last.mask[i + 1] # 0
      /\ \E i \in Actions(brain) : Permitted(last.mask, i)
      /\ FallsThrough([brain EXCEPT !.states = last.pre], last.state,
                      last.evse, last.mask, last.myrandom) )
    => /\ Permitted(last.mask, last.ret)
       /\ \A i \in Actions(brain) : Permitted(last.mask, i) => i <= last.ret

\* C16 -- Exponent 1 is the classic rule: at every position of the random
\* draw, bz_nextaction with an exponent of 1 returns the action that
\* bz_nextaction with a NULL exponent returns.
C16_ExponentOneIsLinear ==
    last.op = "sample" => last.exp1 = last.linear

\* C17 -- Selection is proportional to weight: with no mask and no exponent
\* the share of the draw positions at which action i is returned is
\* weight (0, i) / total weight (checked where the grid of positions is a
\* multiple of the total, so that the share is a whole number of positions).
C17_ProportionalToWeight ==
    ( /\ pc = "swept"
      /\ (DrawGrid * ONE) % Sumup(brain, 0, NULL) = 0 )
    => \A i \in Actions(brain) :
          driver.linear[i + 1] * Sumup(brain, 0, NULL)
              = Weight(brain, 0, i) * DrawGrid

\* C18 -- Exponent sharpening: with weights of 1 and 9 tokens, exponent 2
\* returns the 9-token action at strictly more draw positions than the linear
\* rule does.
C18_ExponentSharpens ==
    ( /\ pc = "swept"
      /\ \E i \in Actions(brain) : Weight(brain, 0, i) = ONE
      /\ \E i \in Actions(brain) : Weight(brain, 0, i) = 9 * ONE )
    => \A i \in Actions(brain) :
          Weight(brain, 0, i) = 9 * ONE
          => driver.exp2[i + 1] > driver.linear[i + 1]

\* C19 -- Entries are immutable once appended: whatever appends, truncations,
\* learn calls and rewrites of the caller's mask buffer follow, every chel
\* still in the chain holds the state, the action and the mask contents given
\* to its bz_addtochain call; and bz_learnchain leaves the chain as it was.
C19_EntriesImmutable ==
    pc = "run"
    => /\ \A j \in 1 .. Len(chain[1].chels) :
             LET chel == chain[1].chels[j]
                 given == driver.appended[chel.seq]
             IN  /\ chel.state = given.state
                 /\ chel.action = given.action
                 /\ MaskOf(chel, driver.mask) = given.mask
       /\ last.op = "learnchain" => chain[1] = last.prechain

\* after a truncation and a rewrite of the buffer, a learn call has run on a
\* chain that holds a chel whose mask differs from the buffer's contents
C19_Witness ==
    /\ pc = "run"
    /\ last.op = "learnchain"
    /\ Len(chain[1].chels) >= 2
    /\ chain[1].totalcount > Len(chain[1].chels)
    /\ brain.states # FilledStates(1, 2, 1)
    /\ \E j \in 1 .. Len(chain[1].chels) :
          /\ chain[1].chels[j].mask # NULL
          /\ chain[1].chels[j].mask # driver.mask

\* C20 -- Episode protocol of the tic-tac-toe driver: while a game is played
\* nothing is learned and each chain holds only moves selected from the brain
\* it was made for; when play_ttt has returned each brain has been learned
\* exactly once, from its own chain, after that chain's last append and while
\* the chain still exists; the brain of the player holding three in a row was
\* learned with (WIN_ADD, WIN_MUL) and the other with (LOSE_ADD, LOSE_MUL),
\* and when nobody holds a line both were learned with (DRAW_ADD, DRAW_MUL).
C20_EpisodeProtocol ==
    /\ pc \in {"b1", "b2"} => driver.learns = << >>
    /\ pc \in {"b1", "b2", "learn", "returned"}
       => /\ chain # << >> /\ chain2 # << >>
          /\ \A n \in {1, 2} :
                /\ ChainNo(n).brain = n
                /\ \A j \in 1 .. Len(ChainNo(n).chels) :
                      <<n, ChainNo(n).chels[j].state, ChainNo(n).chels[j].action>>
                          \in driver.picks
          /\ \A j \in 1 .. Len(driver.learns) :
                ChainNo(driver.learns[j].chain).totalcount = driver.learns[j].appends
    /\ pc = "learn" => Len(driver.learns) <= 1
    /\ (pc = "returned" \/ (pc = "main" /\ driver.games > 0))
       => /\ Len(driver.learns) = 2
          /\ {driver.learns[1].brain, driver.learns[2].brain} = {1, 2}
          /\ \A j \in 1 .. 2 :
                LET l == driver.learns[j]
                    won == \E p \in {1, 2} : HasLine(driver.gb, p) /\ BrainOf(p) = l.brain
                    lost == \E p \in {1, 2} : HasLine(driver.gb, p) /\ BrainOf(p) # l.brain
                IN  /\ l.chain = l.brain
                    /\ l.madefor = l.brain
                    /\ won => (l.add = WIN_ADD /\ l.multiply = WIN_MUL)
                    /\ lost => (l.add = LOSE_ADD /\ l.multiply = LOSE_MUL)
                    /\ (~won /\ ~lost) => (l.add = DRAW_ADD /\ l.multiply = DRAW_MUL)

\* the second game of a pair (brain2 moves first) has ended with the second
\* player, brain1, holding a line: brain1 learned with the winner's pair
\* from chain1 and brain2 with the loser's from chain2
C20_Witness ==
    /\ pc = "returned"
    /\ driver.games = 1
    /\ driver.first = 2
    /\ HasLine(driver.gb, 2)
    /\ driver.learns[1] = [brain |-> 1, chain |-> 1, add |-> WIN_ADD,
                           multiply |-> WIN_MUL, madefor |-> 1,
                           appends |-> Len(chain[1].chels)]
    /\ driver.learns[2].brain = 2
    /\ driver.learns[2].add = LOSE_ADD
    /\ driver.learns[2].appends = Len(chain2[1].chels)
    /\ Len(chain2[1].chels) = Len(chain[1].chels)

C22_UnderflowRecompute ==
    ( /\ last.op = "nextaction"
      /\ last.underflow
      /\ \E i \in Actions(brain) : Permitted(last.mask, i)
      /\ last.mask # NULL => \A i \in Actions(brain) : last.mask[i + 1] # 0 )
    => LET max == RandomMax([brain EXCEPT !.states = last.pre], last.state,
                            last.evse, last.mask)
           legal == LegalCount(brain, last.mask)
       IN  IF last.evse # NULL
           THEN max[1] = legal * max[2]
           ELSE max[1] = legal * brain.starting_tokens * max[2]

\* C23 -- Sampling walk: for a draw r that does not exceed the total of the
\* permitted weights (as they stand after any repair), bz_nextaction returns
\* the lowest permitted index whose cumulative permitted weight (or
\* exponentiated relative weight) is at least r.  Stated for masks without 0
\* entries, with r the value held in myrandom.
C23_WalkReturnsLowestCovering ==
    ( /\ last.op = "nextaction"
      /\ last.mask # NULL => \A i \in Actions(brain) : last.mask[i + 1] # 0 )
    => LET sumup == SumupAfter([brain EXCEPT !.states = last.pre],
                       Sumup([brain EXCEPT !.states = last.pre], last.state, last.mask))
           maxacts == Maxacts(brain, last.mask)
           Covers(i) ==
               /\ Permitted(last.mask, i)
               /\ IF last.evse # NULL
                  THEN CumExp(brain, last.state, last.mask, maxacts, last.evse[1], i)
                           >= last.myrandom * ExpDen(sumup, last.evse[1])
                  ELSE CumWeight(brain, last.state, last.mask, i)
                           >= last.myrandom * ONE
       IN  (\E i \in Actions(brain) : Covers(i))
           => /\ Covers(last.ret)
              /\ \A i \in Actions(brain) : Covers(i) => last.ret <= i

\* C24 -- Truncation to zero: bz_truncatechain (chain, 0) on a chain of n >= 1
\* chels leaves the chain empty and returns n.
C24_TruncateToZero ==
    ( /\ last.op = "truncatechain"
      /\ last.count = 0
      /\ Len(last.prechain.chels) >= 1 )
    => /\ chain[1].chels = << >>
       /\ last.ret = Len(last.prechain.chels)

\* C29 -- Chain count consistency: after any sequence of bz_newchain,
\* bz_addtochain and bz_truncatechain calls, totalcount equals the number of
\* chels linked on the chain.  Right after a truncation the statement is made
\* for counts of 1 and more.
C29_TotalcountIsLength ==
    ( /\ chain # << >>
      /\ last.op = "truncatechain" => last.count >= 1 )
    => chain[1].totalcount = Len(chain[1].chels)

C26_RecordedMovesPlayed ==
    last.op = "addtochain"
    => /\ Digit(last.state, last.move) = 0
       /\ pc # "exited" => /\ driver.gb[last.move + 1] = last.value
                           /\ gbs(driver.gb)
                                = last.state + last.value * Pow(3, last.move)

\* C27 -- Every tic-tac-toe game terminates: each turn of play_ttt marks one
\* more square, the loop goes on only while fewer than 9 squares are marked
\* and victory () reports 0, and it ends with victory () reporting a win for
\* player 1, a win for player 2 or a full board, never by the MAX_TURNS test;
\* play_ttt then returns 1, 2 or 0 accordingly.
C27_GameTerminates ==
    /\ pc \in {"b1", "b2", "learn", "returned"}
       => /\ Marks(driver.gb) = Len(chain[1].chels) + Len(chain2[1].chels)
          /\ Marks(driver.gb) <= 9
          /\ driver.victor = victory(driver.gb)
    /\ pc \in {"b1", "b2"}
       => /\ driver.victor = 0
          /\ Marks(driver.gb) < 9
          /\ driver.movecount < MAX_TURNS
    /\ pc \in {"learn", "returned"}
       => /\ driver.victor \in {1, 2, -1}
          /\ driver.victor = 1 => HasLine(driver.gb, 1)
          /\ driver.victor = 2 => HasLine(driver.gb, 2)
          /\ driver.victor = -1 => Marks(driver.gb) = 9
    /\ (last.op = "learnchain" /\ pc = "returned")
       => last.returns = << (IF driver.victor = -1 THEN 0 ELSE driver.victor) >>

\* a game that ran to the full board and was returned as a draw
C27_Witness ==
    /\ pc = "returned"
    /\ Marks(driver.gb) = 9
    /\ driver.victor = -1
    /\ last.returns = <<0>>
    /\ Len(chain[1].chels) + Len(chain2[1].chels) = 9

\* C28 -- The illegal-move exit is unreachable: whenever play_ttt is about to
\* move the board has an empty square, the exit of execute_move is never
\* taken, and each execute_move call marks exactly one square, empty before,
\* with the mover's value and changes no other.
C28_NoIllegalMoveExit ==
    /\ pc # "exited"
    /\ pc \in {"b1", "b2"} => \E i \in 1 .. 9 : driver.gb[i] = 0
    /\ last.op = "addtochain"
       => \E sq \in 0 .. 8 :
             /\ Digit(last.state, sq) = 0
             /\ driver.gb[sq + 1] = last.value
             /\ \A i \in 0 .. 8 : i # sq => driver.gb[i + 1] = Digit(last.state, i)

\* the second player selected an occupied square and execute_move marked the
\* next empty one
C28_Witness ==
    /\ last.op = "addtochain"
    /\ last.value = 2
    /\ Digit(last.state, last.move) = 1
    /\ Marks(driver.gb) >= 4
    /\ driver.gb[last.move + 1] = 1
    /\ \E sq \in 0 .. 8 : Digit(last.state, sq) = 0 /\ driver.gb[sq + 1] = 2

\* C30 -- Bounded episode memory in the ball-and-track driver: after the
\* append and the truncation of every iteration the chain holds exactly
\* min(iterations so far, TVIS) chels, the most recently appended ones with
\* this iteration's (quan_state, track_cmd) at the head, and the chain is
\* never left longer than TVIS.
C30_BoundedEpisodeMemory ==
    /\ pc \in {"loop", "recorded", "faulted"}
       => Len(chain[1].chels) <= driver.tvis
    /\ pc = "recorded"
       => LET iterations == driver.reps + 1
              chels == chain[1].chels
          IN  /\ Len(chels) = Min(iterations, driver.tvis)
              /\ \A j \in 1 .. Len(chels) : chels[j].seq = iterations - j + 1
              /\ \A j \in 1 .. Len(chels) : chels[j] = last.appended.chels[j]
              /\ chels[1].state = driver.quan_state
              /\ chels[1].action = driver.track_cmd
              /\ last.ret = Len(last.appended.chels) - Len(chels)

\* the fourth iteration of a build with TVIS 2: the chel appended two
\* iterations ago is dropped
C30_Witness ==
    /\ pc = "recorded"
    /\ driver.tvis = 2
    /\ driver.reps = 3
    /\ Len(last.appended.chels) = 3
    /\ Len(chain[1].chels) = 2
    /\ last.ret = 1
    /\ chain[1].chels[2].seq = 3

============================================================================
